---- MODULE Spec2Model ----
(***************************************************************************)
(* Model of lib/api.js: the HTTP client of the counterparty wallet         *)
(* service.  One client object, a number of operations issued on it, the   *)
(* request descriptors handed to the transport, the responses the          *)
(* transport delivers and the invocations of each operation's callback.    *)
(***************************************************************************)
EXTENDS Integers, Sequences, FiniteSets, TLC

VARIABLES client, ops

vars == <<client, ops>>

-----------------------------------------------------------------------------
(* Bounds of the model.                                                     *)

\* number of operations that may be issued on the client
MaxOps == 2
\* longest txids / asset-name list passed by a caller
MaxList == 1

Ops == 1..MaxOps

-----------------------------------------------------------------------------
(* JavaScript values.                                                       *)

Undefined == [t |-> "undefined"]
Null == [t |-> "null"]
True == [t |-> "boolean", v |-> TRUE]
Str(s) == [t |-> "string", v |-> s]
Num(n) == [t |-> "number", v |-> n]
Arr(q) == [t |-> "array", v |-> q]
Obj(f) == [t |-> "object", v |-> f]

\* a variant of the test below with strict equality: x === null
IsStrictNull(x) == x.t = "null"

\* x == null
IsNullish(x) == x.t \in {"undefined", "null"}

\* !!x
Truthy(x) ==
  CASE x.t \in {"undefined", "null"} -> FALSE
    [] x.t = "string" -> x.v # ""
    [] x.t = "number" -> x.v # 0
    [] x.t = "boolean" -> x.v
    [] OTHER -> TRUE

\* x.f, for x neither null nor undefined
Get(x, f) ==
  IF x.t = "object" /\ f \in DOMAIN x.v THEN x.v[f] ELSE Undefined

\* x.length
LengthOf(x) ==
  IF x.t = "array" THEN Num(Len(x.v))
  ELSE IF x.t = "string" THEN Num(IF x.v = "" THEN 0 ELSE 1)
  ELSE Get(x, "length")

\* delete x[f]
Delete(x, f) == Obj([g \in DOMAIN x.v \ {f} |-> x.v[g]])

\* the string conversion applied to the argument of new Error(...)
ToStr(x) ==
  CASE x.t = "string" -> x.v
    [] x.t = "number" -> ToString(x.v)
    [] x.t = "undefined" -> ""
    [] x.t = "null" -> "null"
    [] x.t = "boolean" -> IF x.v THEN "true" ELSE "false"
    [] OTHER -> "[object Object]"

\* new Error(x)
NewError(x) ==
  [t |-> "error", name |-> "Error", message |-> ToStr(x), context |-> Undefined]

\* the error-kind registry of ./errors
ErrorCodes == {"CONNECTION_ERROR", "NOT_FOUND", "ECONNRESET_ERROR", "NOT_AUTHORIZED"}

\* new Errors[code](context)
NewErrors(code, context) ==
  [t |-> "error", name |-> code, message |-> "", context |-> context]

SENTINEL == "{\"error\":\"read ECONNRESET\"}"

\* JSON.parse over the response texts of the model; ok = FALSE is a SyntaxError
JSONparse(s) ==
  CASE s = SENTINEL -> [ok |-> TRUE, val |-> Obj([error |-> Str("read ECONNRESET")])]
    [] s = "{\"code\":\"NOT_AUTHORIZED\"}" ->
         [ok |-> TRUE, val |-> Obj([code |-> Str("NOT_AUTHORIZED")])]
    [] s = "{\"message\":\"bad input\"}" ->
         [ok |-> TRUE, val |-> Obj([message |-> Str("bad input")])]
    [] s = "null" -> [ok |-> TRUE, val |-> Null]
    [] OTHER -> [ok |-> FALSE, val |-> Undefined]

-----------------------------------------------------------------------------
(* The client object.                                                       *)

API_VERSION == "v1"
BASE_URL == "http://localhost:3232/counterparty/api"
OTHER_URL == "https://cp.example.com/api"

\* url.parse(baseUrl)
UrlParse(u) ==
  IF u = BASE_URL
  THEN [protocol |-> "http:", host |-> "localhost:3232", path |-> "/counterparty/api"]
  ELSE [protocol |-> "https:", host |-> "cp.example.com", path |-> "/api"]

\* the constructor; credentials are attached to the object by its owner
API(opts, credentials) ==
  LET baseUrl == IF Truthy(opts.baseUrl) THEN opts.baseUrl.v ELSE BASE_URL
      parsedUrl == UrlParse(baseUrl)
  IN [verbose |-> Truthy(opts.verbose),
      baseUrl |-> baseUrl,
      basePath |-> parsedUrl.path,
      baseHost |-> parsedUrl.protocol \o "//" \o parsedUrl.host,
      timeout |-> IF Truthy(opts.timeout) THEN opts.timeout.v ELSE 50000,
      credentials |-> credentials]

-----------------------------------------------------------------------------
(* Request construction.                                                    *)

\* the version field of ../package.json
Package_version == "1.0.0"

\* API._signRequest: the signature over (method, url, args) with key
signRequest(method, url, args, key) ==
  [t |-> "signature", method |-> method, url |-> url, args |-> args, key |-> key]

\* _getHeaders: the headers, and args as the call leaves it
getHeaders(self, method, url, args) ==
  LET base == [h \in {"x-client-version"} |-> Str("bwc-" \o Package_version)]
  IN IF Truthy(self.credentials)
     THEN LET own == Get(args, "_requestPrivKey")
              key == IF Truthy(own) THEN own
                     ELSE Get(self.credentials, "requestPrivKey")
              args2 == IF Truthy(key) THEN Delete(args, "_requestPrivKey") ELSE args
              reqSignature == IF Truthy(key)
                              THEN signRequest(method, url, args2, key)
                              ELSE Undefined
          IN [headers |-> [h \in {"x-client-version", "x-identity", "x-signature"} |->
                             CASE h = "x-client-version" -> base[h]
                               [] h = "x-identity" -> Get(self.credentials, "copayerId")
                               [] OTHER -> reqSignature],
              args |-> args2]
     ELSE [headers |-> base, args |-> args]

\* the request descriptor _doRequest hands to the transport
newArgs(self, method, url, args) ==
  LET h == getHeaders(self, method, url, args)
  IN [relUrl |-> self.basePath \o url,
      headers |-> h.headers,
      method |-> method,
      url |-> self.baseUrl \o "/" \o API_VERSION \o url,
      body |-> h.args,
      json |-> TRUE,
      withCredentials |-> FALSE,
      timeout |-> self.timeout]

-----------------------------------------------------------------------------
(* Response classification.                                                 *)

\* what a step of the callback does: calls cb with argv, or throws
Cb(argv) == [thrown |-> FALSE, cb |-> <<argv>>]
Throw == [thrown |-> TRUE, cb |-> <<>>]

\* API._parseError, for a truthy body: the error built, or a TypeError
parseError(body) ==
  LET parsed == IF body.t = "string"
                THEN LET r == JSONparse(body.v)
                     IN IF r.ok THEN r.val ELSE Obj([error |-> body])
                ELSE body
  IN IF IsNullish(parsed) THEN [thrown |-> TRUE, ret |-> Undefined]
     ELSE IF Truthy(Get(parsed, "code"))
     THEN IF Get(parsed, "code").t = "string" /\ Get(parsed, "code").v \in ErrorCodes
          THEN [thrown |-> FALSE, ret |-> NewErrors(Get(parsed, "code").v, Undefined)]
          ELSE [thrown |-> FALSE, ret |-> NewError(Get(parsed, "code"))]
     ELSE [thrown |-> FALSE,
           ret |-> NewError(IF Truthy(Get(parsed, "message"))
                            THEN Get(parsed, "message") ELSE parsed)]

\* a variant of notOK that reads the body before the status code
notOK_parseFirst(res, body) ==
  LET statusCode == Get(res, "statusCode")
  IN IF Truthy(statusCode) /\ Truthy(body)
     THEN LET e == parseError(body) IN IF e.thrown THEN Throw ELSE Cb(<<e.ret>>)
     ELSE IF statusCode = Num(404) THEN Cb(<<NewErrors("NOT_FOUND", Undefined)>>)
     ELSE IF ~Truthy(statusCode) THEN Cb(<<NewErrors("CONNECTION_ERROR", Undefined)>>)
     ELSE Cb(<<NewError(statusCode)>>)

\* the transport callback, res.statusCode !== 200
notOK(res, body) ==
  LET statusCode == Get(res, "statusCode")
  IN IF statusCode = Num(404) THEN Cb(<<NewErrors("NOT_FOUND", Undefined)>>)
     ELSE IF ~Truthy(statusCode) THEN Cb(<<NewErrors("CONNECTION_ERROR", Undefined)>>)
     ELSE IF ~Truthy(body) THEN Cb(<<NewError(statusCode)>>)
     ELSE LET e == parseError(body) IN IF e.thrown THEN Throw ELSE Cb(<<e.ret>>)

\* a variant of isOK without the comparison with the sentinel text
isOK_noSentinel(res, body) ==
  IF IsNullish(body) THEN Throw
  ELSE IF ~IsNullish(Get(body, "errors")) /\ ~IsNullish(Get(body, "message"))
  THEN Cb(<<NewError(Get(body, "message"))>>)
  ELSE Cb(<<Null, body, Get(res, "header")>>)

\* the transport callback, res.statusCode === 200
isOK(res, body) ==
  IF body = Str(SENTINEL)
  THEN Cb(<<NewErrors("ECONNRESET_ERROR", JSONparse(body.v).val)>>)
  ELSE IF IsNullish(body) THEN Throw
  ELSE IF ~IsNullish(Get(body, "errors")) /\ ~IsNullish(Get(body, "message"))
  THEN Cb(<<NewError(Get(body, "message"))>>)
  ELSE Cb(<<Null, body, Get(res, "header")>>)

\* function(err, res, body) passed to this.request
requestCallback(err, res, body) ==
  IF ~Truthy(res) THEN Cb(<<NewErrors("CONNECTION_ERROR", Undefined)>>)
  ELSE IF Get(res, "statusCode") # Num(200) THEN notOK(res, body)
  ELSE isOK(res, body)

-----------------------------------------------------------------------------
(* The operations.  ops[i] is the record of the i-th operation: the call,   *)
(* the args mapping given to _doRequest, the descriptors handed to the      *)
(* transport, the responses delivered and the invocations of the callback.  *)

Idle ==
  [pc |-> "idle", name |-> "", argv |-> <<>>, args |-> Undefined,
   sent |-> <<>>, resp |-> <<>>, cb |-> <<>>]

\* an operation that completes without a request: return cb(...)
Local(i, name, argv, cbargs) ==
  /\ ops' = [ops EXCEPT ![i] = [Idle EXCEPT !.pc = "done", !.name = name,
                                            !.argv = argv, !.cb = <<cbargs>>]]
  /\ UNCHANGED client

\* _doRequest up to this.request(newArgs, ...)
doRequest(i, name, argv, method, url, args) ==
  /\ ops' = [ops EXCEPT ![i] = [Idle EXCEPT !.pc = "inflight", !.name = name,
                                            !.argv = argv, !.args = args,
                                            !.sent = <<newArgs(client, method, url, args)>>]]
  /\ UNCHANGED client

\* url.indexOf('?') > 0, over the paths of the model
QueryUrls == {"/balances/1Addr?x=1"}

doGetRequest(i, name, argv, url, r) ==
  doRequest(i, name, argv, "get",
            url \o (IF url \in QueryUrls THEN "&" ELSE "?") \o "r=" \o ToString(r),
            Obj(<<>>))

doPostRequest(i, url, args) ==
  /\ ops[i].pc = "idle"
  /\ doRequest(i, "_doPostRequest", <<Str(url), args>>, "post", url, args)

doPutRequest(i, url, args) ==
  /\ ops[i].pc = "idle"
  /\ doRequest(i, "_doPutRequest", <<Str(url), args>>, "put", url, args)

doDeleteRequest(i, url) ==
  /\ ops[i].pc = "idle"
  /\ doRequest(i, "_doDeleteRequest", <<Str(url)>>, "delete", url, Obj(<<>>))

getVersion(i, r) ==
  /\ ops[i].pc = "idle"
  /\ doGetRequest(i, "getVersion", <<>>, "/version", r)

getBalances(i, address, r) ==
  /\ ops[i].pc = "idle"
  /\ doGetRequest(i, "getBalances", <<Str(address)>>, "/balances/" \o address, r)

\* a variant of the test below without the length test
IsAbsentOnly(x) == IsNullish(x)

\* x == null || x.length == 0
IsEmptyOrAbsent(x) == IsNullish(x) \/ LengthOf(x) = Num(0)

getTransactions(i, address, txids) ==
  /\ ops[i].pc = "idle"
  /\ IF IsEmptyOrAbsent(txids)
     THEN Local(i, "getTransactions", <<Str(address), txids>>, <<Null, Arr(<<>>)>>)
     ELSE doRequest(i, "getTransactions", <<Str(address), txids>>, "post", "/transactions",
                    Obj([address |-> Str(address), txids |-> txids]))

getBvamInfo(i, assets) ==
  /\ ops[i].pc = "idle"
  /\ IF IsEmptyOrAbsent(assets)
     THEN Local(i, "getBvamInfo", <<assets>>, <<Str("Asset names were invalid")>>)
     ELSE doRequest(i, "getBvamInfo", <<assets>>, "post", "/bvam/info",
                    Obj([assets |-> assets]))

addBvamData(i, bvamData) ==
  /\ ops[i].pc = "idle"
  /\ IF IsNullish(bvamData)
     THEN Local(i, "addBvamData", <<bvamData>>, <<Str("bvam data is required")>>)
     ELSE doRequest(i, "addBvamData", <<bvamData>>, "post", "/bvam",
                    Obj([bvam |-> bvamData]))

\* a variant that sends the request again when no response arrived
transport_retry(i, err, res, body) ==
  /\ ops[i].pc = "inflight"
  /\ LET out == requestCallback(err, res, body)
     IN ops' = [ops EXCEPT ![i].pc = IF out.thrown THEN "thrown" ELSE "done",
                           ![i].resp = Append(@, [err |-> err, res |-> res, body |-> body]),
                           ![i].sent = IF ~Truthy(res) THEN Append(@, @[1]) ELSE @,
                           ![i].cb = @ \o out.cb]
  /\ UNCHANGED client

\* the transport completes request i: it calls the function _doRequest gave it
transport(i, err, res, body) ==
  /\ ops[i].pc = "inflight"
  /\ LET out == requestCallback(err, res, body)
     IN ops' = [ops EXCEPT ![i].pc = IF out.thrown THEN "thrown" ELSE "done",
                           ![i].resp = Append(@, [err |-> err, res |-> res, body |-> body]),
                           ![i].cb = @ \o out.cb]
  /\ UNCHANGED client

-----------------------------------------------------------------------------
(* Inputs.                                                                   *)

\* lists of at most MaxList items
Lists(item) == {Arr([k \in 1..n |-> Str(item)]) : n \in 0..MaxList}

Credentials ==
  {Undefined,
   Obj([copayerId |-> Str("id1")]),
   Obj([copayerId |-> Str("id1"), requestPrivKey |-> Str("credKey")])}

Options ==
  [verbose : {Undefined, True},
   baseUrl : {Undefined, Str(OTHER_URL)},
   timeout : {Undefined, Num(1000)}]

Header == Obj([server |-> Str("cp")])

Statuses == {Undefined, Num(0), Num(200), Num(404), Num(400), Num(500)}

Bodies ==
  {Undefined, Null, Str(""), Str(SENTINEL), Str("{\"code\":\"NOT_AUTHORIZED\"}"),
   Str("{\"message\":\"bad input\"}"), Str("null"), Str("Bad Gateway"),
   Obj([code |-> Str("NOT_AUTHORIZED")]),
   Obj([code |-> Str("UNKNOWN_X")]),
   Obj([code |-> Str("UNKNOWN_X"), message |-> Str("bad input")]),
   Obj([message |-> Str("bad input")]),
   Obj([error |-> Str("read ECONNRESET")]),
   Obj([errors |-> Arr(<<Str("e1")>>)]),
   Obj([errors |-> Null, message |-> Str("bad input")]),
   Obj([errors |-> Arr(<<Str("e1")>>), message |-> Str("bad input")])}

\* what the transport may pass to its callback
Responses(statuses, bodies) ==
  {[err |-> NewError(Str("ETIMEDOUT")), res |-> Undefined, body |-> b] : b \in bodies}
  \cup {[err |-> Null,
         res |-> IF s = Undefined THEN Obj([header |-> Header])
                 ELSE Obj([statusCode |-> s, header |-> Header]),
         body |-> b] : s \in statuses, b \in bodies}

\* the inputs of single-operation runs
Full ==
  [single |-> TRUE,
   rs |-> {10000, 99999},
   addresses |-> {"1Addr", "1Addr?x=1"},
   txids |-> {Undefined, Null} \cup Lists("tx1"),
   assets |-> {Undefined, Null} \cup Lists("TOKENLY"),
   bvam |-> {Undefined, Null, Obj([asset |-> Str("TOKENLY")])},
   args |-> {Obj([bvam |-> Str("d")]),
             Obj([bvam |-> Str("d"), _requestPrivKey |-> Str("callKey")])},
   responses |-> Responses(Statuses, Bodies)]

\* the inputs of concurrent runs
Few ==
  [single |-> FALSE,
   rs |-> {10000},
   addresses |-> {"1Addr"},
   txids |-> {Null} \cup Lists("tx1"),
   assets |-> Lists("TOKENLY"),
   bvam |-> {Undefined, Obj([asset |-> Str("TOKENLY")])},
   args |-> {Obj([bvam |-> Str("d"), _requestPrivKey |-> Str("callKey")])},
   responses |-> {x \in Responses({Num(200), Num(404)},
                                   {Null, Obj([message |-> Str("bad input")])}) :
                     x.body = Null \/ Get(x.res, "statusCode") = Num(200)}]

-----------------------------------------------------------------------------
(* Specifications.                                                          *)

Clients(options, credentials) == {API(o, c) : o \in options, c \in credentials}

Init ==
  /\ client \in Clients(Options, Credentials)
  /\ ops = [i \in Ops |-> Idle]

InitFew ==
  /\ client \in Clients({[verbose |-> Undefined, baseUrl |-> Undefined, timeout |-> Undefined]},
                        {c \in Credentials : c = Undefined \/ Truthy(Get(c, "requestPrivKey"))})
  /\ ops = [i \in Ops |-> Idle]

\* a caller may issue operation i
MayIssue(D, i) == D.single => \A j \in Ops : ops[j].pc = "idle"

Step(D) ==
  \E i \in Ops :
    \/ MayIssue(D, i) /\ \E r \in D.rs : getVersion(i, r)
    \/ MayIssue(D, i) /\ \E a \in D.addresses, r \in D.rs : getBalances(i, a, r)
    \/ MayIssue(D, i) /\ \E a \in D.addresses, t \in D.txids : getTransactions(i, a, t)
    \/ MayIssue(D, i) /\ \E a \in D.assets : getBvamInfo(i, a)
    \/ MayIssue(D, i) /\ \E b \in D.bvam : addBvamData(i, b)
    \/ MayIssue(D, i) /\ \E a \in D.args : doPostRequest(i, "/bvam", a)
    \/ MayIssue(D, i) /\ \E a \in D.args : doPutRequest(i, "/bvam", a)
    \/ MayIssue(D, i) /\ doDeleteRequest(i, "/bvam")
    \/ \E x \in D.responses : transport(i, x.err, x.res, x.body)

Next == Step(Full)

NextFew == Step(Few)

\* every operation on every client, one operation per run
Spec == Init /\ [][Next]_vars

\* operations issued concurrently, responses delivered in any order
SpecFew == InitFew /\ [][NextFew]_vars

-----------------------------------------------------------------------------
(* Properties.                                                              *)

PublicOps == {"getVersion", "getBalances", "getTransactions", "getBvamInfo", "addBvamData"}

Settled(o) == o.pc \in {"done", "thrown"}

\* the status code of the response delivered to o, Undefined without a response object
StatusOf(o) ==
  IF o.resp[1].res = Undefined \/ "statusCode" \notin DOMAIN o.resp[1].res.v
  THEN Undefined
  ELSE o.resp[1].res.v["statusCode"]

BodyOf(o) == o.resp[1].body

GenericError(m) ==
  [t |-> "error", name |-> "Error", message |-> m, context |-> Undefined]

KindError(k) ==
  [t |-> "error", name |-> k, message |-> "", context |-> Undefined]

\* cb was called with an error and nothing else
IsErrorCall(argv) == Len(argv) = 1 /\ argv[1].t \in {"error", "string"} /\ argv[1] # Str("")

\* cb was called with no error and a value
IsSuccessCall(argv) == Len(argv) >= 2 /\ argv[1] = Null

\* C1: every public operation, whatever its arguments and whatever the
\* transport delivers, ends with its callback invoked exactly once, with
\* either an error or a success value, and with no fault thrown instead.
C1_ExactlyOneOutcome ==
  \A i \in Ops :
    (ops[i].name \in PublicOps /\ Settled(ops[i])) =>
      /\ ops[i].pc = "done"
      /\ Len(ops[i].cb) = 1
      /\ IsErrorCall(ops[i].cb[1]) # IsSuccessCall(ops[i].cb[1])

\* C2: when the args mapping given to a request carries _requestPrivKey, the
\* body of every descriptor handed to the transport lacks it, whatever the
\* client's credentials.
C2_KeyNeverInBody ==
  \A i \in Ops :
    (ops[i].args.t = "object" /\ "_requestPrivKey" \in DOMAIN ops[i].args.v) =>
      \A k \in 1..Len(ops[i].sent) :
        "_requestPrivKey" \notin DOMAIN ops[i].sent[k].body.v

\* C3: getTransactions with absent or empty txids completes with (null, [])
\* and no request; with non-empty txids it hands the transport exactly one
\* POST to /transactions with body {address, txids}.
C3_GetTransactions ==
  \A i \in Ops :
    ops[i].name = "getTransactions" =>
      IF ops[i].argv[2] \in {Undefined, Null, Arr(<<>>)}
      THEN /\ ops[i].pc = "done"
           /\ ops[i].cb = << <<Null, Arr(<<>>)>> >>
           /\ ops[i].sent = <<>>
      ELSE /\ Len(ops[i].sent) = 1
           /\ ops[i].sent[1].method = "post"
           /\ ops[i].sent[1].url = client.baseUrl \o "/v1/transactions"
           /\ ops[i].sent[1].body =
                Obj([address |-> ops[i].argv[1], txids |-> ops[i].argv[2]])

C3_Witness ==
  \E i \in Ops :
    /\ ops[i].name = "getTransactions"
    /\ ops[i].argv[2] = Arr(<<>>)
    /\ ops[i].pc = "done"

\* C4: getBvamInfo with absent or empty asset names and addBvamData with an
\* absent payload complete with an error, no value and no request.
C4_LocalValidation ==
  \A i \in Ops :
    (\/ ops[i].name = "getBvamInfo" /\ ops[i].argv[1] \in {Undefined, Null, Arr(<<>>)}
     \/ ops[i].name = "addBvamData" /\ ops[i].argv[1] \in {Undefined, Null}) =>
      /\ ops[i].pc = "done"
      /\ Len(ops[i].cb) = 1
      /\ IsErrorCall(ops[i].cb[1])
      /\ ops[i].cb[1][1].t = "string"
      /\ ops[i].sent = <<>>

C4_Witness ==
  \E i \in Ops :
    /\ ops[i].name = "addBvamData"
    /\ ops[i].argv[1] = Undefined
    /\ ops[i].pc = "done"

\* C5: a response with no response object or a falsy status code gives
\* CONNECTION_ERROR, and status 404 gives NOT_FOUND, whatever the body.
C5_StatusBeforeBody ==
  \A i \in Ops :
    Len(ops[i].resp) = 1 =>
      /\ StatusOf(ops[i]) \in {Undefined, Num(0)} =>
           ops[i].pc = "done" /\ ops[i].cb = << <<KindError("CONNECTION_ERROR")>> >>
      /\ StatusOf(ops[i]) = Num(404) =>
           ops[i].pc = "done" /\ ops[i].cb = << <<KindError("NOT_FOUND")>> >>

C5_Witness ==
  \E i \in Ops :
    /\ Len(ops[i].resp) = 1
    /\ StatusOf(ops[i]) = Num(404)
    /\ BodyOf(ops[i]) = Obj([code |-> Str("NOT_AUTHORIZED")])

\* the structured bodies of the model that carry neither code nor message, as text
BodyText(b) ==
  CASE b = Obj([error |-> Str("read ECONNRESET")]) -> SENTINEL
    [] b = Obj([errors |-> Arr(<<Str("e1")>>)]) -> "{\"errors\":[\"e1\"]}"

\* the structured bodies of the model, as received or as text
Structured(b) ==
  CASE b.t = "object" -> b
    [] b = Str(SENTINEL) -> Obj([error |-> Str("read ECONNRESET")])
    [] b = Str("{\"code\":\"NOT_AUTHORIZED\"}") -> Obj([code |-> Str("NOT_AUTHORIZED")])
    [] b = Str("{\"message\":\"bad input\"}") -> Obj([message |-> Str("bad input")])
    [] OTHER -> Undefined

\* C6: with a status other than 200 and 404 and a structured body, a code of
\* the registry gives that kind, any other code gives a generic error whose
\* message is the code, and without a code the message is the body's message,
\* or the whole body when it has none.
C6_ErrorBody ==
  \A i \in Ops :
    (/\ Len(ops[i].resp) = 1
     /\ StatusOf(ops[i]) \in {Num(400), Num(500)}
     /\ Structured(BodyOf(ops[i])) # Undefined) =>
      LET b == Structured(BodyOf(ops[i]))
      IN /\ ops[i].pc = "done"
         /\ ops[i].cb =
              << << IF "code" \in DOMAIN b.v
                    THEN IF b.v["code"].v \in ErrorCodes
                         THEN KindError(b.v["code"].v)
                         ELSE GenericError(b.v["code"].v)
                    ELSE IF "message" \in DOMAIN b.v
                         THEN GenericError(b.v["message"].v)
                         ELSE GenericError(BodyText(b)) >> >>

\* C7: with a status other than 200 and 404 and a body string that is not
\* JSON, the error is a generic error whose message is that string.
C7_RawStringMessage ==
  \A i \in Ops :
    (/\ Len(ops[i].resp) = 1
     /\ StatusOf(ops[i]) \in {Num(400), Num(500)}
     /\ BodyOf(ops[i]) = Str("Bad Gateway")) =>
      /\ ops[i].pc = "done"
      /\ ops[i].cb = << <<GenericError("Bad Gateway")>> >>

\* C8: status 200 with the body string {"error":"read ECONNRESET"} gives
\* ECONNRESET_ERROR carrying the parsed object, never success.
C8_Sentinel ==
  \A i \in Ops :
    (/\ Len(ops[i].resp) = 1
     /\ StatusOf(ops[i]) = Num(200)
     /\ BodyOf(ops[i]) = Str("{\"error\":\"read ECONNRESET\"}")) =>
      /\ ops[i].pc = "done"
      /\ ops[i].cb = << << [t |-> "error", name |-> "ECONNRESET_ERROR", message |-> "",
                            context |-> Obj([error |-> Str("read ECONNRESET")])] >> >>

C8_Witness ==
  \E i \in Ops :
    /\ Len(ops[i].resp) = 1
    /\ StatusOf(ops[i]) = Num(200)
    /\ BodyOf(ops[i]) = Str("{\"error\":\"read ECONNRESET\"}")
    /\ ops[i].pc = "done"

\* C9: status 200 without the sentinel body gives an error exactly when the
\* body has a non-null errors and a non-null message, a generic error with
\* that message; otherwise success with the body as value.
C9_ErrorsAndMessage ==
  \A i \in Ops :
    (/\ Len(ops[i].resp) = 1
     /\ StatusOf(ops[i]) = Num(200)
     /\ BodyOf(ops[i]) # Str(SENTINEL)) =>
      LET b == BodyOf(ops[i])
          both == /\ b.t = "object"
                  /\ "errors" \in DOMAIN b.v /\ b.v["errors"] \notin {Null, Undefined}
                  /\ "message" \in DOMAIN b.v /\ b.v["message"] \notin {Null, Undefined}
      IN /\ ops[i].pc = "done"
         /\ Len(ops[i].cb) = 1
         /\ IF both
            THEN ops[i].cb[1] = <<GenericError(b.v["message"].v)>>
            ELSE IsSuccessCall(ops[i].cb[1]) /\ ops[i].cb[1][2] = b

\* the descriptors, responses and callback invocations of one operation agree
OwnOutcome(o) ==
  /\ Len(o.sent) <= 1
  /\ Len(o.cb) <= 1
  /\ o.pc = "inflight" => Len(o.sent) = 1 /\ o.resp = <<>> /\ o.cb = <<>>
  /\ o.resp # <<>> =>
       /\ Len(o.sent) = 1
       /\ Len(o.resp) = 1
       /\ o.cb = requestCallback(o.resp[1].err, o.resp[1].res, o.resp[1].body).cb
  /\ \A k \in 1..Len(o.sent) :
       /\ o.sent[k].timeout = client.timeout
       /\ o.sent[k].body = IF Truthy(client.credentials)
                           THEN Delete(o.args, "_requestPrivKey") ELSE o.args

\* C10: with operations in flight together and responses delivered in any
\* order, each dispatched operation hands the transport one descriptor and
\* no more, its callback gets the classification of its own response, a step
\* touches one operation only and never the client.
C10_Independent ==
  /\ [](\A i \in Ops : OwnOutcome(ops[i]))
  /\ [][/\ client' = client
        /\ \A i \in Ops :
             ops'[i] # ops[i] =>
               /\ ~Settled(ops[i])
               /\ \A j \in Ops \ {i} : ops'[j] = ops[j]]_vars

C10_Witness ==
  \E i, j \in Ops :
    /\ i < j
    /\ ops[i].pc = "inflight"
    /\ ops[j].pc = "done"
    /\ ops[j].resp # <<>>

====
